---- MODULE Spec2Model ----
(***************************************************************************)
(* Model of src/migaccelerator.py: the batch conversion of classic build   *)
(* pipelines into YAML branches.  A URL is a sequence of tokens (scheme,   *)
(* host, "/", "?", "=", path segments), so that the regular expression of  *)
(* main and the urlparse/split of parse_pipeline_url are computed on the   *)
(* text and not assumed.  Every HTTP call is one step whose response is    *)
(* chosen by the platform.                                                 *)
(***************************************************************************)
EXTENDS Integers, Sequences, FiniteSets, TLC

\* ---------------------------------------------------------------- bounds
MaxLines == 2
MaxRuns == 2

\* ---------------------------------------------------------------- text
Https == "https://"
PlatformHost == "dev.azure.com"
ZeroObjectId == "0000000000000000000000000000000000000000"

IsDigit(t) == t \in {"42", "7"}
IsSpace(t) == t = " "

RECURSIVE RunEnd(_, _)
\* [^/]+ : index of the first "/" at or after p (Len+1 when there is none)
RunEnd(s, p) == IF p > Len(s) \/ s[p] = "/" THEN p ELSE RunEnd(s, p + 1)

RECURSIVE DigitEnd(_, _)
\* \d+ : index of the first non-digit at or after p
DigitEnd(s, p) == IF p > Len(s) \/ ~IsDigit(s[p]) THEN p ELSE DigitEnd(s, p + 1)

HasBuildQuery(url) ==
    \E p \in 1..Len(url) :
        /\ p + 3 <= Len(url)
        /\ url[p] = "_build" /\ url[p + 1] = "?"
        /\ url[p + 2] = "definitionId" /\ url[p + 3] = "="

\* the pattern of main matched at position p; <<>> when it does not match
MatchAt(s, p) ==
    LET g1s == p + 3
        g1e == RunEnd(s, g1s)
        g2s == g1e + 1
        g2e == RunEnd(s, g2s)
        b   == g2e + 1
        ds  == b + 4
        de  == DigitEnd(s, ds)
    IN  IF /\ p + 2 <= Len(s)
           /\ s[p] = Https /\ s[p + 1] = PlatformHost /\ s[p + 2] = "/"
           /\ g1e > g1s /\ g1e <= Len(s)
           /\ g2e > g2s /\ g2e <= Len(s)
           /\ b + 3 <= Len(s)
           /\ s[b] = "_build" /\ s[b + 1] = "?"
           /\ s[b + 2] = "definitionId" /\ s[b + 3] = "="
           /\ de > ds
        THEN << <<SubSeq(s, g1s, g1e - 1), SubSeq(s, g2s, g2e - 1),
                  SubSeq(s, ds, de - 1)>> >>
        ELSE <<>>

\* re.search: the leftmost match
ReSearch(s) ==
    LET hits == {p \in 1..Len(s) : MatchAt(s, p) # <<>>}
    IN  IF hits = {} THEN <<>>
        ELSE MatchAt(s, CHOOSE p \in hits : \A q \in hits : p <= q)

YamlUrl(org, project, def_id) ==
    <<Https, PlatformHost, "/">> \o org \o <<"/">> \o project
        \o <<"/", "_apis", "/", "build", "/", "definitions", "/">>
        \o def_id \o <<"/", "yaml">>

RECURSIVE FirstIn(_, _, _)
\* index of the first token of s at or after p that is in stops (Len+1 if none)
FirstIn(s, p, stops) ==
    IF p > Len(s) \/ s[p] \in stops THEN p ELSE FirstIn(s, p + 1, stops)

\* urlparse: netloc and path of a URL
UrlParse(url) ==
    LET hasScheme == Len(url) >= 1 /\ url[1] = Https
        ns == IF hasScheme THEN 2 ELSE 1
        ne == IF hasScheme THEN FirstIn(url, ns, {"/", "?", "#"}) ELSE ns
        pe == FirstIn(url, ne, {"?", "#"})
    IN  [netloc |-> SubSeq(url, ns, ne - 1), path |-> SubSeq(url, ne, pe - 1)]

RECURSIVE StripSlash(_)
StripSlash(s) ==
    IF s = <<>> THEN s
    ELSE IF Head(s) = "/" THEN StripSlash(Tail(s))
    ELSE IF s[Len(s)] = "/" THEN StripSlash(SubSeq(s, 1, Len(s) - 1))
    ELSE s

RECURSIVE SplitSlash(_)
\* str.split('/'): "" splits into one empty part
SplitSlash(s) ==
    LET e == RunEnd(s, 1)
    IN  IF e > Len(s) THEN <<s>>
        ELSE <<SubSeq(s, 1, e - 1)>> \o SplitSlash(SubSeq(s, e + 1, Len(s)))

DefinitionIdIndex == 5

\* parse_pipeline_url: <<info>> or <<>> (None)
parse_pipeline_url(url) ==
    LET parsed == UrlParse(url)
        path_parts == SplitSlash(StripSlash(parsed.path))
    IN  IF /\ \E i \in 1..Len(parsed.netloc) : parsed.netloc[i] = PlatformHost
           /\ Len(path_parts) >= DefinitionIdIndex
        THEN << [organization |-> path_parts[1],
                 project |-> path_parts[2],
                 definition_id |-> path_parts[DefinitionIdIndex]] >>
        ELSE <<>>

RECURSIVE Strip(_)
Strip(s) ==
    IF s = <<>> THEN s
    ELSE IF IsSpace(Head(s)) THEN Strip(Tail(s))
    ELSE IF IsSpace(s[Len(s)]) THEN Strip(SubSeq(s, 1, Len(s) - 1))
    ELSE s

RECURSIVE StripAll(_)
StripAll(ls) == IF ls = <<>> THEN <<>> ELSE <<Strip(Head(ls))>> \o StripAll(Tail(ls))

\* read_input_urls: the stripped non-blank lines; [] when the file is missing
read_input_urls(f) ==
    IF ~f.exists THEN <<>>
    ELSE SelectSeq(StripAll(f.lines), LAMBDA l : l # <<>>)

RECURSIVE ToYamlUrls(_)
\* the first loop of main
ToYamlUrls(urls) ==
    IF urls = <<>> THEN <<>>
    ELSE LET url == Head(urls)
             m == IF HasBuildQuery(url) THEN ReSearch(url) ELSE <<>>
         IN  (IF m # <<>> THEN <<YamlUrl(m[1][1], m[1][2], m[1][3])>> ELSE <<>>)
                 \o ToYamlUrls(Tail(urls))

\* ---------------------------------------------------------------- inputs
LineA1 == <<Https, PlatformHost, "/", "acme", "/", "payments", "/",
            "_build", "?", "definitionId", "=", "42">>
LineA2 == <<Https, PlatformHost, "/", "acme", "/", "core", "/",
            "_build", "?", "definitionId", "=", "7">>
LineB == <<Https, PlatformHost, "/", "acme", "/", "payments", "/",
           "_apis", "/", "build", "/", "definitions", "/", "42", "/", "yaml">>
LineWrongHost == <<Https, "example.com", "/", "acme", "/", "payments", "/",
                   "_build", "?", "definitionId", "=", "42">>
LineQ == <<Https, PlatformHost, "/", "acme", "?", "x", "/", "payments", "/",
           "_build", "?", "definitionId", "=", "42">>
LineBlank == <<" ">>

Lines == {LineA1, LineA2, LineB, LineWrongHost, LineQ, LineBlank}

SeqsUpTo(S, n) == UNION {[1..k -> S] : k \in 0..n}

Files == {[exists |-> FALSE, lines |-> <<>>]}
            \cup {[exists |-> TRUE, lines |-> l] : l \in SeqsUpTo(Lines, MaxLines)}

PyNone == "None"
Pats == {PyNone, "", "tok"}

Transport == [kind |-> "transport"]
Malformed == [kind |-> "malformed"]

YamlResponses ==
    {[kind |-> "http", status |-> 200, text |-> "steps"],
     [kind |-> "http", status |-> 200, text |-> ""],
     [kind |-> "http", status |-> 404, text |-> "not found"],
     Transport}

Repo(n, i) == [name |-> <<n>>, id |-> i]

RepoLists ==
    {<<Repo("payments", "id1"), Repo("other", "id2")>>,
     <<Repo("other", "id2"), Repo("payments", "id1")>>,
     <<Repo("other", "id2"), Repo("other", "id1")>>,
     <<>>}

ReposResponses ==
    {[kind |-> "http", status |-> 200, value |-> l] : l \in RepoLists}
        \cup {[kind |-> "http", status |-> 500, value |-> <<>>], Malformed, Transport}

Tip(branch_name) == IF branch_name = "master" THEN "cMaster" ELSE "cMain"

RefsResponses(branch_name) ==
    {[kind |-> "http", status |-> 200, value |-> <<[objectId |-> Tip(branch_name)]>>],
     [kind |-> "http", status |-> 200, value |-> <<>>],
     [kind |-> "http", status |-> 404, value |-> <<>>],
     Malformed, Transport}

\* the platform rejects a new-branch ref update when the ref already exists
PushResponses(existing, ref) ==
    IF ref \in existing
    THEN {[kind |-> "http", status |-> 409], Transport}
    ELSE {[kind |-> "http", status |-> 201], [kind |-> "http", status |-> 400],
          Transport}

PushResponseKinds == PushResponses({}, <<>>) \cup PushResponses({<<>>}, <<>>)

\* ---------------------------------------------------------------- state
VARIABLES
    pat, input_file,             \* the credential of the current run, the input file
    headers,                     \* the global headers
    pc,                          \* position of the program
    yaml_urls, idx, successful_count,            \* main
    pipeline_info, yaml_content, repositories,   \* process_pipeline
    target, latest_commit,
    result, summary,             \* what the run returned and printed
    refs,                        \* platform: the branches created so far
    runs, headers0, fileRead, httpIssued,        \* history of the run
    reqs, log, lastPush

vars == <<pat, input_file, headers, pc, yaml_urls, idx, successful_count,
          pipeline_info, yaml_content, repositories, target, latest_commit,
          result, summary, refs, runs, headers0, fileRead, httpIssued,
          reqs, log, lastPush>>

locals == <<pipeline_info, yaml_content, repositories, target, latest_commit>>
env == <<pat, input_file, headers, headers0, runs, fileRead>>

Running == [status |-> "running"]
Complete == [status |-> "complete"]
Raised == [status |-> "raised"]
ExceptionResult_Mut == Raised
ExceptionResult == [status |-> "error"]

Init ==
    /\ pat = PyNone /\ input_file \in Files
    /\ headers = <<>> /\ headers0 = <<>>
    /\ pc = "idle"
    /\ yaml_urls = <<>> /\ idx = 0 /\ successful_count = 0
    /\ pipeline_info = <<>> /\ yaml_content = PyNone /\ repositories = <<>>
    /\ target = <<>> /\ latest_commit = PyNone
    /\ result = Running /\ summary = <<>>
    /\ refs = {}
    /\ runs = 0 /\ fileRead = FALSE /\ httpIssued = FALSE
    /\ reqs = <<>> /\ log = <<>> /\ lastPush = <<>>

ResetLocals ==
    /\ pipeline_info' = <<>> /\ yaml_content' = PyNone /\ repositories' = <<>>
    /\ target' = <<>> /\ latest_commit' = PyNone

\* ---------------------------------------------------------------- helpers
Falsy(v) == v \in {PyNone, ""}

PatMissing_Mut(p) == p = PyNone
PatMissing(p) == Falsy(p)

BasicAuth(p) == <<"Basic", ":", p>>

Entry(outcome, info, yaml, tgt, commit, rq, status) ==
    [outcome |-> outcome, info |-> info, yaml |-> yaml, target |-> tgt,
     commit |-> commit, reqs |-> rq, status |-> status]

\* process_pipeline returned to the loop of main
Returned(success, yaml, tgt, commit, rq, status) ==
    /\ log' = Append(log, Entry(IF success THEN "success" ELSE "failed",
                                pipeline_info, yaml, tgt, commit, rq, status))
    /\ successful_count' = IF success THEN successful_count + 1 ELSE successful_count
    /\ idx' = idx + 1
    /\ pc' = "loop"
    /\ reqs' = <<>>
    /\ ResetLocals
    /\ UNCHANGED <<result, summary>>

\* an exception left process_pipeline and main; run_pipeline_conversion caught it
Raise(yaml, tgt, commit, rq) ==
    /\ log' = Append(log, Entry("exception", pipeline_info, yaml, tgt, commit, rq, 0))
    /\ result' = ExceptionResult
    /\ pc' = "done"
    /\ reqs' = <<>>
    /\ ResetLocals
    /\ UNCHANGED <<successful_count, idx, summary>>

RECURSIVE DictFrom(_)
\* {repo['name']: repo['id'] for repo in value}: insertion order, last id wins
DictFrom(l) ==
    IF l = <<>> THEN <<>>
    ELSE LET d == DictFrom(SubSeq(l, 1, Len(l) - 1))
             r == l[Len(l)]
         IN  IF \E i \in 1..Len(d) : d[i].name = r.name
             THEN [i \in 1..Len(d) |-> IF d[i].name = r.name THEN r ELSE d[i]]
             ELSE Append(d, r)

SelectTarget_Mut(project, repos) == [name |-> repos[1].name, id |-> repos[1].id]

SelectTarget(project, repos) ==
    IF \E i \in 1..Len(repos) : repos[i].name = project
    THEN LET i == CHOOSE i \in 1..Len(repos) : repos[i].name = project
         IN  [name |-> project, id |-> repos[i].id]
    ELSE [name |-> repos[1].name, id |-> repos[1].id]

LatestCommitOf(resp) ==
    IF resp.status = 200
    THEN IF resp.value # <<>> THEN resp.value[1].objectId ELSE PyNone
    ELSE PyNone

NeedsMainFallback_Mut(c) == TRUE
NeedsMainFallback(c) == Falsy(c)

NoBaseCommit_Mut(c) == FALSE
NoBaseCommit(c) == Falsy(c)

PushSucceeded_Mut(status) == status >= 200
PushSucceeded(status) == status = 201

BranchRef(definition_id) == <<"refs/heads/converted-pipeline-">> \o definition_id
FilePath(definition_id) ==
    <<"/pipelines/converted-pipeline-">> \o definition_id \o <<".yaml">>

\* ---------------------------------------------------------------- actions
\* run_pipeline_conversion up to the call of main
RunPipelineConversion(p) ==
    /\ pc \in {"idle", "done"}
    /\ runs < MaxRuns
    /\ runs' = runs + 1
    /\ pat' = p
    /\ headers0' = headers
    /\ fileRead' = FALSE /\ httpIssued' = FALSE
    /\ reqs' = <<>> /\ log' = <<>> /\ lastPush' = <<>> /\ summary' = <<>>
    /\ yaml_urls' = <<>> /\ idx' = 0 /\ successful_count' = 0
    /\ IF PatMissing(p)
       THEN /\ headers' = headers
            /\ result' = Raised
            /\ pc' = "done"
       ELSE /\ headers' = BasicAuth(p)
            /\ result' = Running
            /\ pc' = "main"
    /\ UNCHANGED <<input_file, locals, refs>>

\* main up to the processing loop
Main ==
    /\ pc = "main"
    /\ fileRead' = TRUE
    /\ LET original_urls == read_input_urls(input_file)
           urls == ToYamlUrls(original_urls)
       IN  IF original_urls = <<>> \/ urls = <<>>
           THEN /\ result' = Complete
                /\ pc' = "done"
                /\ UNCHANGED <<yaml_urls, idx, successful_count>>
           ELSE /\ yaml_urls' = urls
                /\ idx' = 1
                /\ successful_count' = 0
                /\ pc' = "loop"
                /\ UNCHANGED result
    /\ UNCHANGED <<pat, input_file, headers, headers0, runs, locals, summary,
                   refs, httpIssued, reqs, log, lastPush>>

\* one iteration of the loop of main, up to the first request of process_pipeline
NextUrl ==
    /\ pc = "loop"
    /\ idx <= Len(yaml_urls)
    /\ LET info == parse_pipeline_url(yaml_urls[idx])
       IN  IF info = <<>>
           THEN /\ log' = Append(log, Entry("parse_failed", <<>>, PyNone, <<>>,
                                            PyNone, <<>>, 0))
                /\ idx' = idx + 1
                /\ UNCHANGED <<pc, pipeline_info>>
           ELSE /\ pipeline_info' = info
                /\ pc' = "fetch_yaml"
                /\ UNCHANGED <<log, idx>>
    /\ UNCHANGED <<env, yaml_urls, successful_count, yaml_content, repositories,
                   target, latest_commit, result, summary, refs, httpIssued,
                   reqs, lastPush>>

\* the summary of main and the return of run_pipeline_conversion
Summary ==
    /\ pc = "loop"
    /\ idx > Len(yaml_urls)
    /\ summary' = <<[success |-> successful_count, total |-> Len(yaml_urls)]>>
    /\ result' = Complete
    /\ pc' = "done"
    /\ UNCHANGED <<env, yaml_urls, idx, successful_count, locals, refs,
                   httpIssued, reqs, log, lastPush>>

\* get_converted_yaml_content and the check of process_pipeline
FetchYaml(resp) ==
    /\ pc = "fetch_yaml"
    /\ httpIssued' = TRUE
    /\ LET rq == Append(reqs, <<"yaml", "-">>)
           content == IF resp.kind = "http" /\ resp.status = 200
                      THEN resp.text ELSE PyNone
       IN  IF resp.kind # "http"
           THEN Raise(PyNone, <<>>, PyNone, rq)
           ELSE IF Falsy(content)
           THEN Returned(FALSE, content, <<>>, PyNone, rq, 0)
           ELSE /\ yaml_content' = content
                /\ reqs' = rq
                /\ pc' = "get_repositories"
                /\ UNCHANGED <<idx, successful_count, pipeline_info, repositories,
                               target, latest_commit, result, summary, log>>
    /\ UNCHANGED <<env, yaml_urls, refs, lastPush>>

\* get_repositories and the selection of the target repository
GetRepositories(resp) ==
    /\ pc = "get_repositories"
    /\ httpIssued' = TRUE
    /\ LET rq == Append(reqs, <<"repositories", "-">>)
           repos == IF resp.kind = "http" /\ resp.status = 200
                    THEN DictFrom(resp.value) ELSE <<>>
       IN  IF resp.kind # "http"
           THEN Raise(yaml_content, <<>>, PyNone, rq)
           ELSE IF repos = <<>>
           THEN Returned(FALSE, yaml_content, <<>>, PyNone, rq, 0)
           ELSE /\ repositories' = repos
                /\ target' = <<SelectTarget(pipeline_info[1].project, repos)>>
                /\ reqs' = rq
                /\ pc' = "latest_commit_master"
                /\ UNCHANGED <<idx, successful_count, pipeline_info, yaml_content,
                               latest_commit, result, summary, log>>
    /\ UNCHANGED <<env, yaml_urls, refs, lastPush>>

\* get_latest_commit(..., "master") and the first check of create_branch_with_yaml
GetLatestCommitMaster(resp) ==
    /\ pc = "latest_commit_master"
    /\ httpIssued' = TRUE
    /\ LET rq == Append(reqs, <<"refs/master", IF resp.kind = "http" THEN LatestCommitOf(resp) ELSE "raise">>)
       IN  IF resp.kind # "http"
           THEN Raise(yaml_content, target, PyNone, rq)
           ELSE /\ latest_commit' = LatestCommitOf(resp)
                /\ reqs' = rq
                /\ pc' = IF NeedsMainFallback(LatestCommitOf(resp))
                         THEN "latest_commit_main" ELSE "push"
                /\ UNCHANGED <<idx, successful_count, pipeline_info, yaml_content,
                               repositories, target, result, summary, log>>
    /\ UNCHANGED <<env, yaml_urls, refs, lastPush>>

\* get_latest_commit(..., "main") and the second check of create_branch_with_yaml
GetLatestCommitMain(resp) ==
    /\ pc = "latest_commit_main"
    /\ httpIssued' = TRUE
    /\ LET rq == Append(reqs, <<"refs/main", IF resp.kind = "http" THEN LatestCommitOf(resp) ELSE "raise">>)
           commit == LatestCommitOf(resp)
       IN  IF resp.kind # "http"
           THEN Raise(yaml_content, target, PyNone, rq)
           ELSE IF NoBaseCommit(commit)
           THEN Returned(FALSE, yaml_content, target, commit, rq, 0)
           ELSE /\ latest_commit' = commit
                /\ reqs' = rq
                /\ pc' = "push"
                /\ UNCHANGED <<idx, successful_count, pipeline_info, yaml_content,
                               repositories, target, result, summary, log>>
    /\ UNCHANGED <<env, yaml_urls, refs, lastPush>>

PushData ==
    [repo |-> target[1].id,
     name |-> BranchRef(pipeline_info[1].definition_id),
     oldObjectId |-> ZeroObjectId,
     path |-> FilePath(pipeline_info[1].definition_id),
     content |-> yaml_content,
     base |-> latest_commit]

\* the push of create_branch_with_yaml and its result
Push(resp) ==
    /\ pc = "push"
    /\ resp \in PushResponses(refs, <<PushData.repo, PushData.name>>)
    /\ httpIssued' = TRUE
    /\ lastPush' = <<PushData>>
    /\ LET rq == Append(reqs, <<"push", "-">>)
       IN  IF resp.kind # "http"
           THEN /\ Raise(yaml_content, target, latest_commit, rq)
                /\ UNCHANGED refs
           ELSE /\ refs' = IF resp.status = 201
                           THEN refs \cup {<<PushData.repo, PushData.name>>}
                           ELSE refs
                /\ Returned(PushSucceeded(resp.status), yaml_content, target,
                            latest_commit, rq, resp.status)
    /\ UNCHANGED <<env, yaml_urls>>

Next ==
    \/ \E p \in Pats : RunPipelineConversion(p)
    \/ Main
    \/ NextUrl
    \/ Summary
    \/ \E resp \in YamlResponses : FetchYaml(resp)
    \/ \E resp \in ReposResponses : GetRepositories(resp)
    \/ \E resp \in RefsResponses("master") : GetLatestCommitMaster(resp)
    \/ \E resp \in RefsResponses("main") : GetLatestCommitMain(resp)
    \/ \E resp \in PushResponseKinds : Push(resp)

Spec == Init /\ [][Next]_vars

\* ---------------------------------------------------------------- properties
Last(q) == q[Len(q)]
Asked(rq, k) == \E i \in 1..Len(rq) : rq[i][1] = k
Answer(rq, k) == rq[CHOOSE i \in 1..Len(rq) : rq[i][1] = k][2]
Pos(rq, k) == CHOOSE i \in 1..Len(rq) : rq[i][1] = k
Absent(v) == v = "None" \/ v = ""

\* the two line formats of the input file, well formed
IsName(t) == t \notin {Https, "/", "?", "=", "#", " "}
ShapeA(l) ==
    /\ Len(l) = 12
    /\ l[1] = Https /\ l[2] = PlatformHost /\ l[3] = "/" /\ IsName(l[4])
    /\ l[5] = "/" /\ IsName(l[6]) /\ l[7] = "/" /\ l[8] = "_build"
    /\ l[9] = "?" /\ l[10] = "definitionId" /\ l[11] = "=" /\ IsDigit(l[12])
ShapeB(l) ==
    /\ Len(l) = 16
    /\ l[1] = Https /\ l[2] = PlatformHost /\ l[3] = "/" /\ IsName(l[4])
    /\ l[5] = "/" /\ IsName(l[6]) /\ l[7] = "/" /\ l[8] = "_apis"
    /\ l[9] = "/" /\ l[10] = "build" /\ l[11] = "/" /\ l[12] = "definitions"
    /\ l[13] = "/" /\ IsDigit(l[14]) /\ l[15] = "/" /\ l[16] = "yaml"
ValidLine(l) == ShapeA(l) \/ ShapeB(l)
Embedded(l) ==
    [organization |-> <<l[4]>>, project |-> <<l[6]>>,
     definition_id |-> <<IF ShapeA(l) THEN l[12] ELSE l[14]>>]
ValidLines == SelectSeq(StripAll(input_file.lines), ValidLine)

\* C1: every push carries, as the base object id of its ref update, the base
\* commit resolved from master or main, and never the all-zero id.
C1_PushBaseIsResolvedCommit ==
    lastPush # <<>> =>
        /\ lastPush[1].oldObjectId = lastPush[1].base
        /\ lastPush[1].oldObjectId # ZeroObjectId

\* C2: whatever the outcome of any stage of any pipeline (failure status,
\* malformed body, transport error), the run processes every accepted URL,
\* prints the summary and returns status complete.
C2_FailureNeverStopsBatch ==
    (pc = "done" /\ yaml_urls # <<>>) =>
        /\ result = Complete
        /\ summary # <<>>
        /\ Len(log) = Len(yaml_urls)

\* C3: a push is issued for a pipeline only after its YAML fetch returned
\* non-empty text, a target repository was selected from a non-empty listing
\* and a base commit was resolved; when one of them is missing there is no push.
C3_PushOnlyAfterAllResolved ==
    /\ pc = "push" =>
          /\ ~Absent(yaml_content)
          /\ repositories # <<>> /\ target # <<>>
          /\ ~Absent(latest_commit)
          /\ Asked(reqs, "yaml") /\ Asked(reqs, "repositories")
          /\ Asked(reqs, "refs/master")
    /\ lastPush # <<>> =>
          ~Absent(lastPush[1].content) /\ ~Absent(lastPush[1].base)
    /\ \A i \in 1..Len(log) :
          Asked(log[i].reqs, "push") <=>
              /\ ~Absent(log[i].yaml)
              /\ log[i].target # <<>>
              /\ ~Absent(log[i].commit)
              /\ Last(log[i].reqs)[1] = "push"
              /\ Asked(log[i].reqs, "yaml") /\ Asked(log[i].reqs, "repositories")
              /\ Asked(log[i].reqs, "refs/master")

C3_Witness ==
    /\ \E i \in 1..Len(log) : log[i].status = 201
    /\ \E j \in 1..Len(log) :
          /\ log[j].outcome = "failed" /\ log[j].target # <<>>
          /\ Absent(log[j].commit) /\ ~Asked(log[j].reqs, "push")

\* C4: the summary's total is the number of input lines that are valid pipeline
\* URLs and its success count is the number of pushes answered 201, so that
\* 0 <= success <= total.
C4_SummaryCountsValidLines ==
    summary # <<>> =>
        /\ summary[1].total = Len(ValidLines)
        /\ summary[1].success =
              Cardinality({i \in 1..Len(log) : log[i].status = 201})
        /\ 0 <= summary[1].success /\ summary[1].success <= summary[1].total

\* C5: once the branch of a definition id exists in a repository, a later push
\* of the same definition id to that repository that the platform answers is a
\* failed publish: it is not counted as a success, creates nothing and the
\* batch goes on with the next URL.
C5_RepublishFailsAndBatchContinues ==
    [][(/\ pc = "push"
        /\ <<PushData.repo, PushData.name>> \in refs
        /\ Len(log') = Len(log) + 1
        /\ Last(log').outcome # "exception")
       => (/\ Last(log').outcome = "failed"
           /\ Last(log').status # 201
           /\ Last(Last(log').reqs)[1] = "push"
           /\ successful_count' = successful_count
           /\ refs' = refs
           /\ pc' = "loop" /\ idx' = idx + 1
           /\ result' = Running)]_vars

C5_Witness ==
    /\ runs = 2 /\ pc = "done" /\ summary # <<>>
    /\ Len(log) = 2
    /\ log[1].status = 409 /\ log[1].outcome = "failed"
    /\ log[2].outcome = "success"
    /\ summary[1].success = 1

Resolved(rq) ==
    IF ~Asked(rq, "refs/master") \/ Answer(rq, "refs/master") = "raise" THEN "None"
    ELSE IF ~Absent(Answer(rq, "refs/master")) THEN "cMaster"
    ELSE IF ~Asked(rq, "refs/main") \/ Answer(rq, "refs/main") = "raise" THEN "None"
    ELSE IF ~Absent(Answer(rq, "refs/main")) THEN "cMain"
    ELSE "None"

C6_Order(rq) ==
    /\ Asked(rq, "refs/main") =>
          /\ Asked(rq, "refs/master")
          /\ Pos(rq, "refs/master") < Pos(rq, "refs/main")
          /\ Absent(Answer(rq, "refs/master"))
    /\ Asked(rq, "push") =>
          /\ Resolved(rq) # "None"
          /\ Asked(rq, "refs/main") => Pos(rq, "refs/main") < Pos(rq, "push")

\* C6: heads/master is queried first and heads/main only when master yielded no
\* commit; the base commit is the master tip when master has one, else the main
\* tip; when neither has one there is no push and the pipeline failed.
C6_MasterThenMain ==
    /\ C6_Order(reqs)
    /\ pc = "push" => latest_commit = Resolved(reqs)
    /\ lastPush # <<>> => lastPush[1].base \in {"cMaster", "cMain"}
    /\ \A i \in 1..Len(log) :
          /\ C6_Order(log[i].reqs)
          /\ log[i].outcome \in {"success", "failed"} /\ Asked(log[i].reqs, "refs/master")
                => /\ log[i].commit = Resolved(log[i].reqs)
                   /\ Absent(Answer(log[i].reqs, "refs/master"))
                         => Asked(log[i].reqs, "refs/main")
                   /\ Resolved(log[i].reqs) = "None"
                         => ~Asked(log[i].reqs, "push") /\ log[i].outcome = "failed"

C6_Witness ==
    \E i \in 1..Len(log) :
        /\ Asked(log[i].reqs, "refs/main")
        /\ log[i].commit = "cMain"
        /\ log[i].status = 201

\* C7: the target is the repository named like the project when the mapping
\* has one, else the first entry of the mapping; its id is the id the mapping
\* gives to its name.
C7_TargetSelection ==
    target # <<>> =>
        LET project == pipeline_info[1].project
            named == {i \in 1..Len(repositories) : repositories[i].name = project}
        IN  /\ repositories # <<>>
            /\ \E i \in 1..Len(repositories) : repositories[i] = target[1]
            /\ named # {} => target[1].name = project
            /\ named = {} => target[1] = repositories[1]

C7_Witness ==
    /\ pc = "push"
    /\ Len(repositories) = 2
    /\ repositories[1].name # pipeline_info[1].project
    /\ target[1] = repositories[2]

\* C8: every non-blank line of shape (a) or (b) is counted in the total and is
\* processed for exactly the organization, project and definition id written
\* in it; every other line is skipped.
C8_BothShapesAccepted ==
    summary # <<>> =>
        /\ summary[1].total = Len(ValidLines)
        /\ Len(log) = Len(ValidLines)
        /\ \A k \in 1..Len(log) :
              k <= Len(ValidLines) => log[k].info = <<Embedded(ValidLines[k])>>

\* C9: with the credential unset or empty the run fails with a configuration
\* error before any work: no file read, no HTTP request, headers unchanged.
C9_MissingCredentialAbortsBeforeWork ==
    (runs > 0 /\ (pat = "None" \/ pat = "")) =>
        /\ pc = "done"
        /\ result.status = "raised"
        /\ ~fileRead /\ ~httpIssued
        /\ headers = headers0
        /\ log = <<>> /\ lastPush = <<>> /\ summary = <<>>

C9_Witness ==
    /\ runs = 2 /\ pat = "" /\ pc = "done"
    /\ headers # <<>> /\ refs # {}

====
